---- MODULE Spec2Model ----
(***************************************************************************)
(* aws-sso-helper: reconciliation of a SCIM directory with a CSV user      *)
(* list.  The repository holds two copies of the script: index.js (CLI /   *)
(* S3-triggered Lambda) and a second Lambda copy taking inline CSV text.   *)
(* Both are modelled; the variable impl says which copy is running.        *)
(*                                                                         *)
(* Strings are sequences of one-character strings, so that toLowerCase and *)
(* trim are computed character by character.  One TLA+ step is one         *)
(* event-loop turn of Node: the I/O callback and every promise reaction    *)
(* (microtask) it triggers.  A rejection nobody observes (a throw inside an *)
(* async promise executor) leaves the promises that depend on it pending;  *)
(* the event loop keeps serving the responses of the requests in flight.   *)
(***************************************************************************)
EXTENDS Integers, Sequences, FiniteSets, TLC

(* ---------------------------- bounds ----------------------------------- *)
\* longest CSV row list and longest initial directory listing explored
MaxLocal == 2
MaxRemote == 2

(* ---------------------------- strings ---------------------------------- *)
\* String.prototype.toLowerCase on one character of the alphabet used here
LowerChar(c) ==
    CASE c = "A" -> "a"
      [] c = "B" -> "b"
      [] c = "C" -> "c"
      [] c = "D" -> "d"
      [] c = "F" -> "f"
      [] c = "G" -> "g"
      [] OTHER -> c

ToLowerIdentity(s) == s

\* String.prototype.toLowerCase
ToLowerCase(s) == [i \in 1..Len(s) |-> LowerChar(s[i])]

RECURSIVE TrimStart(_)
TrimStart(s) == IF s # <<>> /\ Head(s) = " " THEN TrimStart(Tail(s)) ELSE s

RECURSIVE TrimEnd(_)
TrimEnd(s) ==
    IF s # <<>> /\ s[Len(s)] = " " THEN TrimEnd(SubSeq(s, 1, Len(s) - 1)) ELSE s

\* String.prototype.trim
Trim(s) == TrimEnd(TrimStart(s))

\* the value a property read yields when the object has no such property
undefined == <<"undefined">>

\* csvUser[field]
Field(u, f) == IF f \in DOMAIN u THEN u[f] ELSE undefined

\* Array.prototype.indexOf: zero-based position of the first match, or -1
IndexOf(arr, x) ==
    IF \E i \in 1..Len(arr) : arr[i] = x
    THEN (CHOOSE i \in 1..Len(arr) :
              arr[i] = x /\ \A j \in 1..(i - 1) : arr[j] # x) - 1
    ELSE -1

(* ---------------------------- inputs ----------------------------------- *)
ValidRow(email) ==
    [givenName |-> <<"G">>, familyName |-> <<"F">>,
     displayName |-> <<"D">>, email |-> email]

\* rows the CSV parser can hand over (columns: true): a column missing from
\* the header is an absent property, an empty cell is the empty string, and a
\* column beyond the four documented ones (here: id) is a property like any other
LocalRows ==
    { ValidRow(<<"a", "b">>),
      [givenName |-> <<"G">>, familyName |-> <<"F">>,
       displayName |-> <<"D">>, email |-> <<"A", "b">>, id |-> <<"7">>],
      [familyName |-> <<"F">>, displayName |-> <<"D">>, email |-> <<"c">>],
      [givenName |-> <<"G">>, familyName |-> <<>>,
       displayName |-> <<"D">>, email |-> <<"c">>],
      [givenName |-> <<"G">>, familyName |-> <<"F">>,
       displayName |-> <<" ">>, email |-> <<"a", "b">>],
      [givenName |-> <<"G">>, familyName |-> <<"F">>, displayName |-> <<"D">>] }

RemoteNames == { <<"a", "b">>, <<"d">> }

SeqsUpTo(S, n) == UNION { [1..k -> S] : k \in 0..n }

\* the directory's resources; ids are the positions
InitialDirectories ==
    { [i \in 1..Len(names) |-> [id |-> i, userName |-> names[i]]] :
          names \in SeqsUpTo(RemoteNames, MaxRemote) }

(* ---------------------------- state ------------------------------------ *)
VARIABLES
    impl,         \* "index" (index.js) or "part" (the inline-CSV Lambda copy)
    csvSource,    \* the rows of the CSV source
    directory,    \* the remote directory: sequence of [id, userName]
    nextId,       \* next identifier the directory assigns
    runNo,        \* number of the current run: 1, or 2 after the script was run again
    prevAllOk,    \* the previous run diffed its lists and all its operations succeeded
    pc,           \* position of run(): "init", "parsing", "listing", "called", "aborted"
    getStatus,    \* GET {endpoint}/Users: "none", "inflight", "ok", "failed"
    csvUsers,     \* records resolved by the CSV parser (mutated by createUser)
    ssoUsers,     \* value of ssoUsers in run(): [kind |-> "unset" | "undefined" | "array", items]
    creations,    \* userCreations, with the POST each createUser call issued
    deletions,    \* userDeletions, with the DELETE each deleteUser call issued
    syncPc,       \* position of syncUsers: "none", "awaitCreations", "awaitDeletions", "returned", "threw"
    syncPromise,  \* the promise syncUsers returned: "none", "pending", "resolved", "rejected"
    response,     \* the summary message, <<>> while there is none
    runPromise,   \* the promise run() returned: "pending", "resolved", "rejected"
    parsed,       \* the CSV parser has resolved its records in this run
    issued        \* the got.post / got.delete calls of this run, in call order

vars == <<impl, csvSource, directory, nextId, runNo, prevAllOk, pc, getStatus,
          csvUsers, ssoUsers, creations, deletions, syncPc, syncPromise,
          response, runPromise, parsed, issued>>

Unset == [kind |-> "unset", items |-> <<>>]
Array(items) == [kind |-> "array", items |-> items]

GetUsersCatchEmpty == [kind |-> "array", items |-> <<>>]

\* getUsers of the inline-CSV copy: the catch block logs and returns nothing
GetUsersCatch == [kind |-> "undefined", items |-> <<>>]

(* ---------------------------- createUser ------------------------------- *)
\* isFieldValid: csvUser[field] && !!(csvUser[field].trim())
isFieldValid(csvUser, field) ==
    /\ field \in DOMAIN csvUser
    /\ csvUser[field] # <<>>
    /\ Trim(csvUser[field]) # <<>>

\* the condition of the "Ignoring user" branch, negated
PassesValidation(csvUser) ==
    /\ isFieldValid(csvUser, "givenName")
    /\ isFieldValid(csvUser, "familyName")
    /\ isFieldValid(csvUser, "displayName")
    /\ isFieldValid(csvUser, "email")

userObjectByDisplayName(csvUser) ==
    [userName |-> Field(csvUser, "displayName"),
     name |-> [familyName |-> Field(csvUser, "familyName"),
               givenName |-> Field(csvUser, "givenName")],
     displayName |-> Field(csvUser, "displayName"),
     emails |-> << [value |-> Field(csvUser, "email"), type |-> "work", primary |-> TRUE] >>,
     active |-> TRUE]

\* the SCIM payload of POST {endpoint}/Users
userObject(csvUser) ==
    [userName |-> Field(csvUser, "email"),
     name |-> [familyName |-> Field(csvUser, "familyName"),
               givenName |-> Field(csvUser, "givenName")],
     displayName |-> Field(csvUser, "displayName"),
     emails |-> << [value |-> Field(csvUser, "email"), type |-> "work", primary |-> TRUE] >>,
     active |-> TRUE]

createUserFallsThrough(csvUser, k) ==
    [idx |-> k,
     promise |-> IF PassesValidation(csvUser) THEN "pending" ELSE "rejected",
     value |-> IF PassesValidation(csvUser) THEN "none" ELSE "Error",
     req |-> "inflight",
     body |-> userObject(csvUser)]

\* createUser up to its first await.  A valid record: the payload is built and
\* the POST is issued.  An invalid record: the branch calls logger.warning, but
\* the logger is created with winston's default levels (error, warn, info, ...:
\* the levels the --log option documents), which define no method "warning";
\* the call throws a TypeError inside the async executor, before reject() and
\* before the POST, so the promise createUser returned is never settled
createUser(csvUser, k) ==
    IF PassesValidation(csvUser)
    THEN [idx |-> k, promise |-> "pending", value |-> "none", req |-> "inflight",
          body |-> userObject(csvUser)]
    ELSE [idx |-> k, promise |-> "pending", value |-> "none", req |-> "none",
          body |-> <<>>]

deleteUserDeferred(ssoUser, j) ==
    [idx |-> j, id |-> ssoUser.id, promise |-> "pending", value |-> "none",
     req |-> "none"]

\* deleteUser up to its first await: DELETE {endpoint}/Users/{id} is issued
deleteUser(ssoUser, j) ==
    [idx |-> j, id |-> ssoUser.id, promise |-> "pending", value |-> "none",
     req |-> "inflight"]

(* ---------------------------- syncUsers -------------------------------- *)
\* ssoUsers.map(...) on a value that is no array, or csvUser.email.toLowerCase()
\* on a record without email, throws a TypeError before anything is dispatched
SyncThrowsTypeError(sso, csv) ==
    \/ sso.kind # "array"
    \/ \E k \in 1..Len(csv) : "email" \notin DOMAIN csv[k]

\* const ssoUserEmails = ssoUsers.map(...)
ssoUserEmails(sso) == [j \in 1..Len(sso) |-> ToLowerCase(sso[j].userName)]

\* const csvUserEmails = csvUsers.map(...)
csvUserEmails(csv) == [k \in 1..Len(csv) |-> ToLowerCase(csv[k].email)]

Indices(arr) == [i \in 1..Len(arr) |-> i]

CreateIndicesPerMismatch(sso, csv) ==
    LET pairs == [p \in 1..(Len(csv) * Len(sso)) |->
                      [k |-> ((p - 1) \div Len(sso)) + 1, j |-> ((p - 1) % Len(sso)) + 1]]
        hits == SelectSeq(pairs,
                          LAMBDA q : ToLowerCase(sso[q.j].userName)
                                         # ToLowerCase(csv[q.k].email))
    IN  [i \in 1..Len(hits) |-> hits[i].k]

CreateIndicesDeduped(sso, csv) ==
    SelectSeq(Indices(csv),
              LAMBDA k : /\ IndexOf(ssoUserEmails(sso), ToLowerCase(csv[k].email)) = -1
                         /\ \A h \in 1..(k - 1) :
                                ToLowerCase(csv[h].email) # ToLowerCase(csv[k].email))

\* csvUsers.forEach: the positions whose record is handed to createUser
CreateIndices(sso, csv) ==
    SelectSeq(Indices(csv),
              LAMBDA k : IndexOf(ssoUserEmails(sso), ToLowerCase(csv[k].email)) = -1)

\* ssoUsers.forEach: the positions whose record is handed to deleteUser
DeleteIndices(sso, csv) ==
    SelectSeq(Indices(sso),
              LAMBDA j : IndexOf(csvUserEmails(csv), ToLowerCase(sso[j].userName)) = -1)

\* userCreations after the forEach
userCreations(sso, csv) ==
    LET ks == CreateIndices(sso, csv)
    IN  [i \in 1..Len(ks) |-> createUser(csv[ks[i]], ks[i])]

\* userDeletions after the forEach
userDeletions(sso, csv) ==
    LET js == DeleteIndices(sso, csv)
    IN  [i \in 1..Len(js) |-> deleteUser(sso[js[i]], js[i])]

\* Promise.all: rejected as soon as one input is, resolved when all are
PromiseAll(promises) ==
    IF \E i \in 1..Len(promises) : promises[i].promise = "rejected" THEN "rejected"
    ELSE IF \A i \in 1..Len(promises) : promises[i].promise = "resolved" THEN "resolved"
    ELSE "pending"

\* the two awaits of syncUsers, run as far as the promises allow
Resume(at, cre, del) ==
    LET afterCreations ==
            CASE PromiseAll(del) = "rejected" -> "threw"
              [] PromiseAll(del) = "pending" -> "awaitDeletions"
              [] OTHER -> "returned"
    IN  CASE at = "awaitCreations" /\ PromiseAll(cre) = "rejected" -> "threw"
          [] at = "awaitCreations" /\ PromiseAll(cre) = "pending" -> "awaitCreations"
          [] at = "awaitCreations" /\ PromiseAll(cre) = "resolved" -> afterCreations
          [] at = "awaitDeletions" -> afterCreations
          [] OTHER -> at

CountErrors(results) ==
    Cardinality({ i \in 1..Len(results) : results[i].value = "Error" })

\* the counting loops: results that are not instanceof Error
CountSuccesses(results) ==
    Cardinality({ i \in 1..Len(results) : results[i].value # "Error" })

\* the template string of the summary
Message(x, y, a, b) ==
    << "Completed creating ", x, "/", y, " and deleting ", a, "/", b, " user(s)." >>

Response(cre, del) ==
    Message(CountSuccesses(cre), Len(cre), CountSuccesses(del), Len(del))

PromiseOfForwarding(which, at) ==
    CASE at = "returned" -> "resolved"
      [] at = "threw" -> "rejected"
      [] OTHER -> "pending"

\* what the promise returned by syncUsers does when syncUsers is at position at:
\* index.js resolves an outer promise from an async executor whose own
\* rejection nobody observes; the other copy is a plain async function
PromiseOf(which, at) ==
    CASE at = "returned" -> "resolved"
      [] at = "threw" -> IF which = "index" THEN "pending" ELSE "rejected"
      [] OTHER -> "pending"

\* the rest of the turn after the promises in cre and del changed
Continue(at, cre, del) ==
    LET to == Resume(at, cre, del)
    IN  /\ syncPc' = to
        /\ syncPromise' = PromiseOf(impl, to)
        /\ runPromise' = PromiseOf(impl, to)
        /\ response' = IF to = "returned" /\ at # "returned"
                       THEN Response(cre, del) ELSE response

IssuedDeletionsFirst(cre, del) ==
    [j \in 1..Len(del) |-> [method |-> "DELETE", idx |-> del[j].idx]]
        \o [i \in 1..Len(SelectSeq(cre, LAMBDA op : op.req # "none")) |->
                [method |-> "POST",
                 idx |-> SelectSeq(cre, LAMBDA op : op.req # "none")[i].idx]]

\* the requests handed to got while the two forEach loops run: the POSTs of the
\* createUser calls that reach got.post, then the DELETEs of the deleteUser calls
IssuedBy(cre, del) ==
    [i \in 1..Len(SelectSeq(cre, LAMBDA op : op.req # "none")) |->
         [method |-> "POST",
          idx |-> SelectSeq(cre, LAMBDA op : op.req # "none")[i].idx]]
        \o [j \in 1..Len(del) |-> [method |-> "DELETE", idx |-> del[j].idx]]

\* return syncUsers(ssoUsers, csvUsers), up to the end of the turn
CallSyncUsers(sso, csv) ==
    LET throws == SyncThrowsTypeError(sso, csv)
        cre == IF throws THEN <<>> ELSE userCreations(sso.items, csv)
        del == IF throws THEN <<>> ELSE userDeletions(sso.items, csv)
    IN  /\ pc' = "called"
        /\ creations' = cre
        /\ deletions' = del
        /\ issued' = IssuedBy(cre, del)
        /\ Continue(IF throws THEN "threw" ELSE "awaitCreations", cre, del)

(* ---------------------------- run -------------------------------------- *)
Init ==
    /\ impl \in {"index", "part"}
    /\ csvSource \in SeqsUpTo(LocalRows, MaxLocal)
    /\ directory \in InitialDirectories
    /\ nextId = Len(directory) + 1
    /\ runNo = 1
    /\ prevAllOk = FALSE
    /\ pc = "init"
    /\ getStatus = "none"
    /\ csvUsers = <<>>
    /\ ssoUsers = Unset
    /\ creations = <<>>
    /\ deletions = <<>>
    /\ syncPc = "none"
    /\ syncPromise = "none"
    /\ response = <<>>
    /\ runPromise = "pending"
    /\ parsed = FALSE
    /\ issued = <<>>

\* run() up to its first await: index.js opens the file and waits for the
\* parser, the other copy issues the GET
Start ==
    /\ pc = "init"
    /\ IF impl = "index"
       THEN pc' = "parsing" /\ UNCHANGED getStatus
       ELSE pc' = "listing" /\ getStatus' = "inflight"
    /\ UNCHANGED <<impl, csvSource, directory, nextId, runNo, prevAllOk, csvUsers,
                   ssoUsers, creations, deletions, syncPc, syncPromise, response,
                   runPromise, parsed, issued>>

\* the parser's 'end' event: resolve(records)
ParseEnd ==
    /\ pc = "parsing"
    /\ csvUsers' = csvSource
    /\ parsed' = TRUE
    /\ IF impl = "index"
       THEN /\ pc' = "listing"
            /\ getStatus' = "inflight"
            /\ UNCHANGED <<creations, deletions, syncPc, syncPromise, response,
                           runPromise, issued>>
       ELSE /\ CallSyncUsers(ssoUsers, csvSource)
            /\ UNCHANGED getStatus
    /\ UNCHANGED <<impl, csvSource, directory, nextId, runNo, prevAllOk, ssoUsers>>

\* the response to GET {endpoint}/Users: a 2xx body, or got throws
GetResponse(ok) ==
    /\ pc = "listing"
    /\ getStatus = "inflight"
    /\ getStatus' = IF ok THEN "ok" ELSE "failed"
    /\ IF impl = "index"
       THEN IF ok
            THEN /\ ssoUsers' = Array(directory)
                 /\ CallSyncUsers(Array(directory), csvUsers)
            ELSE /\ pc' = "aborted"
                 /\ runPromise' = "rejected"
                 /\ UNCHANGED <<ssoUsers, creations, deletions, syncPc, syncPromise,
                                response, issued>>
       ELSE /\ ssoUsers' = IF ok THEN Array(directory) ELSE GetUsersCatch
            /\ pc' = "parsing"
            /\ UNCHANGED <<creations, deletions, syncPc, syncPromise, response,
                           runPromise, issued>>
    /\ UNCHANGED <<impl, csvSource, directory, nextId, runNo, prevAllOk, csvUsers,
                   parsed>>

CreateOutcomes == {"ok", "409", "error"}
DeleteOutcomes == {"ok", "404", "error"}

SettleAlwaysResolve(op, to, v) ==
    IF op.promise = "pending" THEN [op EXCEPT !.promise = "resolved", !.value = v] ELSE op

\* resolve(v) / reject(e) on a promise that may already be settled
Settle(op, to, v) ==
    IF op.promise = "pending" THEN [op EXCEPT !.promise = to, !.value = v] ELSE op

\* csvUser.id = body.id
WithId(csvUser, id) ==
    [f \in DOMAIN csvUser \cup {"id"} |-> IF f = "id" THEN id ELSE csvUser[f]]

\* the response to the POST of userCreations[i]
CreateResponse(i, outcome) ==
    /\ i \in 1..Len(creations)
    /\ creations[i].req = "inflight"
    /\ LET op == [creations[i] EXCEPT !.req = outcome]
           cre == [creations EXCEPT ![i] =
                       IF outcome = "ok" THEN Settle(op, "resolved", "csvUser")
                       ELSE Settle(op, "rejected", "Error")]
       IN  /\ creations' = cre
           /\ Continue(syncPc, cre, deletions)
    /\ IF outcome = "ok"
       THEN /\ csvUsers' = [csvUsers EXCEPT ![creations[i].idx] = WithId(@, nextId)]
            /\ directory' = Append(directory,
                                   [id |-> nextId, userName |-> creations[i].body.userName])
            /\ nextId' = nextId + 1
       ELSE UNCHANGED <<csvUsers, directory, nextId>>
    /\ UNCHANGED <<impl, csvSource, runNo, prevAllOk, pc, getStatus, ssoUsers, deletions,
                   parsed, issued>>

\* the response to the DELETE of userDeletions[j]
DeleteResponse(j, outcome) ==
    /\ j \in 1..Len(deletions)
    /\ deletions[j].req = "inflight"
    /\ LET op == [deletions[j] EXCEPT !.req = outcome]
           del == [deletions EXCEPT ![j] =
                       IF outcome = "ok" THEN Settle(op, "resolved", "null")
                       ELSE Settle(op, "rejected", "Error")]
       IN  /\ deletions' = del
           /\ Continue(syncPc, creations, del)
    /\ directory' = IF outcome = "ok"
                    THEN SelectSeq(directory, LAMBDA r : r.id # deletions[j].id)
                    ELSE directory
    /\ UNCHANGED <<impl, csvSource, nextId, runNo, prevAllOk, pc, getStatus, csvUsers,
                   ssoUsers, creations, parsed, issued>>

InFlight ==
    \/ getStatus = "inflight"
    \/ \E i \in 1..Len(creations) : creations[i].req = "inflight"
    \/ \E j \in 1..Len(deletions) : deletions[j].req = "inflight"

AllSucceeded ==
    /\ pc = "called"
    /\ \A i \in 1..Len(creations) :
           creations[i].promise = "resolved" /\ creations[i].req = "ok"
    /\ \A j \in 1..Len(deletions) :
           deletions[j].promise = "resolved" /\ deletions[j].req = "ok"

\* the script is run again on the same CSV source once the event loop of the
\* previous run is empty
Rerun ==
    /\ runNo = 1
    /\ pc \in {"called", "aborted"}
    /\ ~InFlight
    /\ runNo' = runNo + 1
    /\ prevAllOk' = (AllSucceeded /\ syncPc # "threw")
    /\ pc' = "init"
    /\ getStatus' = "none"
    /\ csvUsers' = <<>>
    /\ ssoUsers' = Unset
    /\ creations' = <<>>
    /\ deletions' = <<>>
    /\ syncPc' = "none"
    /\ syncPromise' = "none"
    /\ response' = <<>>
    /\ runPromise' = "pending"
    /\ parsed' = FALSE
    /\ issued' = <<>>
    /\ UNCHANGED <<impl, csvSource, directory, nextId>>

Next ==
    \/ Start
    \/ ParseEnd
    \/ \E ok \in BOOLEAN : GetResponse(ok)
    \/ \E i \in DOMAIN creations, outcome \in CreateOutcomes : CreateResponse(i, outcome)
    \/ \E j \in DOMAIN deletions, outcome \in DeleteOutcomes : DeleteResponse(j, outcome)
    \/ Rerun

Spec == Init /\ [][Next]_vars

(* ======================================================================= *)
(* Properties                                                              *)
(* ======================================================================= *)

\* pairs of letters that differ only in case
LetterPairs ==
    { <<"a", "A">>, <<"b", "B">>, <<"c", "C">>, <<"d", "D">>, <<"f", "F">>, <<"g", "G">> }

\* the matching key of the data model: equality up to letter case
EqualIgnoringCase(s, t) ==
    /\ Len(s) = Len(t)
    /\ \A i \in 1..Len(s) :
           \/ s[i] = t[i]
           \/ <<s[i], t[i]>> \in LetterPairs
           \/ <<t[i], s[i]>> \in LetterPairs

\* every record handed to syncUsers carries its matching key
KeysPresent ==
    /\ ssoUsers.kind = "array"
    /\ \A k \in 1..Len(csvUsers) : "email" \in DOMAIN csvUsers[k]

\* the local record at position k has a counterpart in the remote list
HasRemote(k) ==
    \E j \in 1..Len(ssoUsers.items) :
        EqualIgnoringCase(csvUsers[k].email, ssoUsers.items[j].userName)

\* the remote record at position j has a counterpart in the local list
HasLocal(j) ==
    \E k \in 1..Len(csvUsers) :
        EqualIgnoringCase(csvUsers[k].email, ssoUsers.items[j].userName)

\* the four required fields are present and not blank
RequiredFieldsPresent(u) ==
    \A f \in {"givenName", "familyName", "displayName", "email"} :
        f \in DOMAIN u /\ \E i \in 1..Len(u[f]) : u[f][i] # " "

\* syncUsers has been called with well-formed lists of valid records
CalledOnValidLists ==
    /\ pc = "called"
    /\ KeysPresent
    /\ \A k \in 1..Len(csvUsers) : RequiredFieldsPresent(csvUsers[k])

\* the summary the design prescribes for the operations of this run: every
\* operation is attempted, those whose request succeeded for a valid record count
PrescribedSummary ==
    Message(Cardinality({ i \in 1..Len(creations) :
                              /\ creations[i].req = "ok"
                              /\ RequiredFieldsPresent(csvUsers[creations[i].idx]) }),
            Len(creations),
            Cardinality({ j \in 1..Len(deletions) : deletions[j].req = "ok" }),
            Len(deletions))

SummaryReturned == syncPromise = "resolved" /\ response = PrescribedSummary

\* C1: once syncUsers has run its diff on lists whose records carry their keys,
\* createUser has been called for exactly the local records whose email
\* equals no remote userName up to letter case, and deleteUser for exactly the
\* remote records whose userName equals no local email up to letter case.
C1_DiffDispatch ==
    (pc = "called" /\ KeysPresent) =>
        /\ \A k \in 1..Len(csvUsers) :
               (\E i \in 1..Len(creations) : creations[i].idx = k) <=> ~HasRemote(k)
        /\ \A j \in 1..Len(ssoUsers.items) :
               (\E i \in 1..Len(deletions) : deletions[i].idx = j) <=> ~HasLocal(j)

\* a local and a remote record whose keys differ only in case: nothing dispatched
C1_Witness ==
    /\ pc = "called"
    /\ KeysPresent
    /\ Len(csvUsers) = 1 /\ Len(ssoUsers.items) = 1
    /\ csvUsers[1].email = <<"A", "b">>
    /\ ssoUsers.items[1].userName = <<"a", "b">>
    /\ creations = <<>> /\ deletions = <<>>

\* C2 (as claimed): once both lists are obtained and every request has received
\* its response, whatever the outcomes, syncUsers has returned the summary.
C2_AlwaysReturnsSummary ==
    (CalledOnValidLists /\ ~InFlight) =>
        (syncPromise = "resolved" /\ response # <<>>)

\* C3: when every dispatched creation and deletion has succeeded, syncUsers has
\* returned "Completed creating n/n and deleting m/m user(s)." with n the number
\* of local records without a remote counterpart and m the number of remote
\* records without a local counterpart (0/0 and 0/0 for two empty lists).
C3_AllSucceedSummary ==
    (pc = "called" /\ KeysPresent /\ AllSucceeded) =>
        LET n == Cardinality({ k \in 1..Len(csvUsers) : ~HasRemote(k) })
            m == Cardinality({ j \in 1..Len(ssoUsers.items) : ~HasLocal(j) })
        IN  /\ syncPromise = "resolved"
            /\ response = << "Completed creating ", n, "/", n,
                             " and deleting ", m, "/", m, " user(s)." >>

\* one creation and one deletion, both successful, and the summary returned
C3_Witness ==
    /\ AllSucceeded
    /\ Len(creations) = 1 /\ Len(deletions) = 1
    /\ response = Message(1, 1, 1, 1)

\* C4 (as claimed): a creation whose POST returned 409 or failed otherwise is
\* counted as attempted but not successful in the summary the run returns.
C4_FailedCreationCounted ==
    (/\ CalledOnValidLists
     /\ ~InFlight
     /\ \E i \in 1..Len(creations) : creations[i].req \in {"409", "error"})
        => SummaryReturned

\* C5 (as claimed): a deletion whose DELETE returned 404 or failed otherwise is
\* counted as attempted but not successful in the summary the run returns.
C5_FailedDeletionCounted ==
    (/\ CalledOnValidLists
     /\ ~InFlight
     /\ \E j \in 1..Len(deletions) : deletions[j].req \in {"404", "error"})
        => SummaryReturned

\* C6: no POST is ever issued for a local record one of whose required fields
\* is blank or absent.
C6_NoPostForInvalidRecord ==
    \A i \in 1..Len(creations) :
        creations[i].req # "none" => RequiredFieldsPresent(csvUsers[creations[i].idx])

\* createUser was called for an invalid record next to a valid one: the valid
\* record's POST went out and was answered, the invalid record has none
C6_Witness ==
    /\ pc = "called"
    /\ KeysPresent
    /\ \E i, j \in 1..Len(creations) :
           /\ ~RequiredFieldsPresent(csvUsers[creations[i].idx])
           /\ creations[i].req = "none"
           /\ RequiredFieldsPresent(csvUsers[creations[j].idx])
           /\ creations[j].req = "ok"

\* C7 (as claimed): when a local record that carries an email fails validation
\* the run continues and, once every request has been answered, the summary has
\* been returned with that record attempted but not successful.
C7_InvalidRecordCounted ==
    (/\ pc = "called"
     /\ KeysPresent
     /\ ~InFlight
     /\ \E k \in 1..Len(csvUsers) : ~RequiredFieldsPresent(csvUsers[k]) /\ ~HasRemote(k))
        => (/\ SummaryReturned
            /\ \A k \in 1..Len(csvUsers) :
                   ~HasRemote(k) => \E i \in 1..Len(creations) : creations[i].idx = k)

\* C8: after a failed GET {endpoint}/Users no create and no delete request is
\* ever issued and no summary is returned, and when run() has come to its end
\* its promise is rejected.
C8_ListFailureAborts ==
    getStatus = "failed" =>
        /\ creations = <<>> /\ deletions = <<>>
        /\ response = <<>>
        /\ syncPromise # "resolved" /\ runPromise # "resolved"
        /\ pc \in {"called", "aborted"} => runPromise = "rejected"

\* the copy that catches the error in getUsers, with records waiting to be created
C8_Witness ==
    /\ getStatus = "failed"
    /\ impl = "part"
    /\ pc = "called"
    /\ Len(csvUsers) > 0
    /\ runPromise = "rejected"

\* C9: a second run that follows a run all of whose operations succeeded
\* dispatches no creation and no deletion.
C9_SecondRunIdle ==
    (runNo = 2 /\ prevAllOk /\ pc = "called") =>
        creations = <<>> /\ deletions = <<>>

\* the second run after a first run that created "Ab" and deleted "d"
C9_Witness ==
    /\ runNo = 2 /\ prevAllOk /\ pc = "called"
    /\ response = Message(0, 0, 0, 0)
    /\ Len(directory) = 1
    /\ directory[1].userName = <<"A", "b">>

\* C10 (as claimed): when syncUsers, called on valid records, has returned, with
\* a summary or with a failure, none of the requests it dispatched is still in
\* flight.
C10_SettledBeforeReturn ==
    (CalledOnValidLists /\ syncPromise \in {"resolved", "rejected"}) =>
        /\ \A i \in 1..Len(creations) : creations[i].req # "inflight"
        /\ \A j \in 1..Len(deletions) : deletions[j].req # "inflight"

\* the request of an operation has been handed to got
Issued(op) == op.req \in {"inflight", "ok", "409", "404", "error"}

\* C11: in every state after the diff, whatever responses and failures have
\* arrived so far, every valid local record without a remote counterpart has had
\* its POST issued and every remote record without a local counterpart its
\* DELETE: all requests go out in the turn that runs the diff, before
\* syncUsers awaits anything.
C11_AllRequestsIssued ==
    (pc = "called" /\ KeysPresent) =>
        /\ \A k \in 1..Len(csvUsers) :
               (~HasRemote(k) /\ RequiredFieldsPresent(csvUsers[k])) =>
                   \E i \in 1..Len(creations) : creations[i].idx = k /\ Issued(creations[i])
        /\ \A j \in 1..Len(ssoUsers.items) :
               ~HasLocal(j) =>
                   \E i \in 1..Len(deletions) : deletions[i].idx = j /\ Issued(deletions[i])

\* a creation was refused with 409 and syncUsers gave up, yet the DELETE issued
\* next to it went out and was answered
C11_Witness ==
    /\ syncPc = "threw"
    /\ Len(issued) = 2
    /\ \E i \in 1..Len(creations) : creations[i].req = "409"
    /\ \E j \in 1..Len(deletions) : deletions[j].req = "ok"

DuplicateLocals(k, h) ==
    /\ k # h
    /\ EqualIgnoringCase(csvUsers[k].email, csvUsers[h].email)
    /\ ~HasRemote(k)

SourceFieldsKept(k) ==
    /\ DOMAIN csvUsers[k] \subseteq DOMAIN csvSource[k] \cup {"id"}
    /\ \A f \in DOMAIN csvSource[k] \ {"id"} :
           f \in DOMAIN csvUsers[k] /\ csvUsers[k][f] = csvSource[k][f]

\* the local record at position k was created, and its id is the one the
\* directory filed the new user under
IdFromDirectory(k) ==
    /\ \E i \in 1..Len(creations) : creations[i].idx = k /\ creations[i].req = "ok"
    /\ \E d \in 1..Len(directory) :
           /\ directory[d].id = csvUsers[k].id
           /\ directory[d].userName = csvUsers[k].email

\* C14: in every reachable state a local record carries an id only if its
\* POST succeeded, and then the id is the one the directory returned; its
\* other fields are those of the parsed row; and once fetched, the remote
\* list is not changed for the rest of the run.
C14_IdOnlyFromDirectory ==
    /\ [](\A k \in 1..Len(csvUsers) :
              /\ SourceFieldsKept(k)
              /\ "id" \in DOMAIN csvUsers[k] => IdFromDirectory(k))
    /\ [][(pc = "called" /\ pc' = "called") => ssoUsers' = ssoUsers]_vars

\* C15: whichever of the two is started first, a create or delete request is
\* issued only after the CSV source has been parsed and the remote listing
\* has been received.
C15_BothInputsBeforeRequests ==
    issued # <<>> => (parsed /\ getStatus = "ok" /\ ssoUsers.kind = "array")

\* the copy that lists first has parsed afterwards and issued its requests
C15_Witness ==
    /\ impl = "part"
    /\ parsed
    /\ getStatus = "ok"
    /\ \E a, b \in 1..Len(issued) : issued[a].method = "POST" /\ issued[b].method = "DELETE"

\* C16: a returned summary reports no failure: its success counts equal its
\* attempted counts, X = Y and A = B.
C16_SummaryReportsNoFailure ==
    response # <<>> => (response[2] = response[4] /\ response[6] = response[8])

\* a summary over at least one creation and one deletion has been returned
C16_Witness ==
    /\ response # <<>>
    /\ response[4] >= 1
    /\ response[8] >= 1
    /\ syncPromise = "resolved"

\* C17: in index.js the promise returned by syncUsers is never rejected: it is
\* resolved with the summary or pending.
C17_IndexNeverRejects ==
    impl = "index" =>
        /\ syncPromise \in {"none", "pending", "resolved"}
        /\ syncPromise = "resolved" => response # <<>>

\* index.js: a request failed, the executor threw, every response has arrived
\* and the promise is still pending
C17_Witness ==
    /\ impl = "index"
    /\ syncPc = "threw"
    /\ \E i \in 1..Len(creations) : creations[i].promise = "rejected"
    /\ ~InFlight
    /\ syncPromise = "pending"

\* the requests the two lists call for: a POST for each valid local record
\* without a remote counterpart, in local-list order, then a DELETE for each
\* remote record without a local counterpart, in remote-list order
ExpectedRequests ==
    IF ~KeysPresent THEN <<>>
    ELSE LET toCreate == SelectSeq([k \in 1..Len(csvUsers) |-> k],
                                   LAMBDA k : /\ ~HasRemote(k)
                                              /\ RequiredFieldsPresent(csvUsers[k]))
             toDelete == SelectSeq([j \in 1..Len(ssoUsers.items) |-> j],
                                   LAMBDA j : ~HasLocal(j))
         IN  [i \in 1..Len(toCreate) |-> [method |-> "POST", idx |-> toCreate[i]]]
                 \o [i \in 1..Len(toDelete) |-> [method |-> "DELETE", idx |-> toDelete[i]]]

\* the summary the two lists determine
ExpectedSummary ==
    LET n == Cardinality({ k \in 1..Len(csvUsers) : ~HasRemote(k) })
        m == Cardinality({ j \in 1..Len(ssoUsers.items) : ~HasLocal(j) })
    IN  Message(n, n, m, m)

\* C18: in either copy the sequence of requests issued by syncUsers and a
\* returned summary are functions of the remote and the local list alone, so
\* the two copies issue the same requests in the same order (creations in
\* local-list order, then deletions in remote-list order) and return equal
\* summaries.
C18_CopiesAgree ==
    pc = "called" =>
        /\ issued = ExpectedRequests
        /\ response # <<>> => (KeysPresent /\ response = ExpectedSummary)

\* two creations and a deletion were issued in that order and the summary returned
C18_Witness ==
    /\ pc = "called"
    /\ Len(issued) = 3
    /\ issued[1] = [method |-> "POST", idx |-> 1]
    /\ issued[2] = [method |-> "POST", idx |-> 2]
    /\ issued[3].method = "DELETE"
    /\ response = ExpectedSummary
====
